---- MODULE Spec2Model ----
(***************************************************************************)
(* Model of src/app.py: the Flask route POST /analisar_aposta, the         *)
(* validator validar_contexto_consulta, the prompt renderer                *)
(* _gerar_prompt_especializado / _formatar_odds, the gateway call in       *)
(* processar_consulta, and the start-up code that creates the global       *)
(* analista_instance.                                                      *)
(*                                                                         *)
(* Text is a sequence of one-character strings, so that float() parses it  *)
(* and str() renders it.  A Python float is an integer number of           *)
(* hundredths: the model's inputs carry at most two fractional digits, for *)
(* which float() followed by repr() is exact.  Message strings are written *)
(* in ASCII (the source's accents are dropped).                            *)
(***************************************************************************)
EXTENDS Integers, Sequences, FiniteSets, TLC

VARIABLES
    launch,             \* how the module was started: "script" or "wsgi"
    GOOGLE_API_KEY,     \* os.getenv("GOOGLE_API_KEY"), a JSON-like value
    server,             \* "boot", "serving" or "exited"
    analista_instance,  \* the module global: None or the gateway object
    now,                \* datetime.now(), a tick counter
    req                 \* per worker thread: the request it is handling

vars == <<launch, GOOGLE_API_KEY, server, analista_instance, now, req>>

\* The clock stops at MaxTime.
MaxTime == 1

----------------------------------------------------------------------------
(* Python / JSON values *)

None == [k |-> "none", s |-> <<>>, n |-> 0]
Absent == [k |-> "absent", s |-> <<>>, n |-> 0]
Str(s) == [k |-> "str", s |-> s, n |-> 0]
Num(n) == [k |-> "num", s |-> <<>>, n |-> n]
List == [k |-> "list", s |-> <<>>, n |-> 0]

\* Python truthiness: None, "", 0 and 0.0 are falsy; the list of the model is
\* non-empty.
Truthy(v) ==
    CASE v.k = "none" -> FALSE
      [] v.k = "absent" -> FALSE
      [] v.k = "str" -> v.s # <<>>
      [] v.k = "num" -> v.n # 0
      [] v.k = "list" -> TRUE

Digits == <<"0", "1", "2", "3", "4", "5", "6", "7", "8", "9">>

IsDigit(c) == \E d \in 1..Len(Digits) : Digits[d] = c

DigitVal(c) == (CHOOSE d \in 1..Len(Digits) : Digits[d] = c) - 1

RECURSIVE DigitsVal(_)
DigitsVal(s) ==
    IF s = <<>> THEN 0
    ELSE DigitsVal(SubSeq(s, 1, Len(s) - 1)) * 10 + DigitVal(s[Len(s)])

AllDigits(s) == \A p \in 1..Len(s) : IsDigit(s[p])

\* An unsigned decimal literal: digits, at most one ".", at least one digit.
Unsigned(s) ==
    LET dots == {p \in 1..Len(s) : s[p] = "."}
        dot == IF dots = {} THEN Len(s) + 1 ELSE CHOOSE p \in dots : TRUE
        ip == SubSeq(s, 1, dot - 1)
        fp == SubSeq(s, dot + 1, Len(s))
        fp2 == IF Len(fp) = 0 THEN <<"0", "0">>
               ELSE IF Len(fp) = 1 THEN fp \o <<"0">> ELSE SubSeq(fp, 1, 2)
    IN  IF Cardinality(dots) > 1 \/ ~AllDigits(ip) \/ ~AllDigits(fp)
           \/ Len(ip) + Len(fp) = 0
        THEN [ok |-> FALSE, v |-> 0]
        ELSE [ok |-> TRUE, v |-> DigitsVal(ip) * 100 + DigitsVal(fp2)]

\* float(text): an optional sign, then an unsigned literal; anything else is
\* a ValueError.
ParseFloat(s) ==
    IF s # <<>> /\ s[1] = "-"
    THEN LET u == Unsigned(Tail(s)) IN [ok |-> u.ok, v |-> 0 - u.v]
    ELSE IF s # <<>> /\ s[1] = "+" THEN Unsigned(Tail(s))
    ELSE Unsigned(s)

RECURSIVE NatToStr(_)
NatToStr(n) ==
    IF n < 10 THEN <<Digits[n + 1]>>
    ELSE NatToStr(n \div 10) \o <<Digits[(n % 10) + 1]>>

\* str(float): repr keeps at least one fractional digit and drops trailing
\* zeros after it.
FormatFloat(v) ==
    LET a == IF v < 0 THEN 0 - v ELSE v
        h == a % 100
        frac == IF h % 10 = 0 THEN <<Digits[(h \div 10) + 1]>>
                ELSE <<Digits[(h \div 10) + 1], Digits[(h % 10) + 1]>>
    IN  (IF v < 0 THEN <<"-">> ELSE <<>>) \o NatToStr(a \div 100) \o <<".">> \o frac

\* str(x) as an f-string interpolates it.
PyStr(v) ==
    CASE v.k = "none" -> <<"N", "o", "n", "e">>
      [] v.k = "str" -> v.s
      [] v.k = "num" -> FormatFloat(v.n)
      [] OTHER -> <<"?">>

----------------------------------------------------------------------------
(* Exceptions *)

Exc(type, msg) == [type |-> type, msg |-> msg]

NoExc == Exc("", "")

\* isinstance(e, ValueError)
IsValueError(e) == e.type = "ValueError"

\* isinstance(e, Exception): every exception of the model (BaseException-only
\* signals such as KeyboardInterrupt are not modelled).
IsException(e) == e.type # ""

----------------------------------------------------------------------------
(* Request data: the JSON object of a request, key -> value *)

RequiredFields == <<"liga", "time_casa", "time_fora">>

Fields1x2 == <<"odd_casa", "odd_empate", "odd_fora">>

FieldsOverUnder == <<"odd_over", "odd_under">>

FieldsBtts == <<"odd_btts_sim", "odd_btts_nao">>

OddFields == Fields1x2 \o FieldsOverUnder \o FieldsBtts

Range(s) == {s[p] : p \in 1..Len(s)}

Fields == Range(RequiredFields) \cup Range(OddFields) \cup {"contexto_adicional"}

\* dados.get(key): None when the key is missing
DictGet(obj, key) == IF obj[key].k = "absent" THEN None ELSE obj[key]

\* dados.get(key, default)
DictGetDefault(obj, key, default) ==
    IF obj[key].k = "absent" THEN default ELSE obj[key]

\* float(x): a number is kept, text is parsed (ValueError when it is no
\* number), anything else is a TypeError.
PyFloat(v) ==
    CASE v.k = "num" -> [raised |-> FALSE, exc |-> NoExc, val |-> v]
      [] v.k = "str" ->
            LET r == ParseFloat(v.s)
            IN  IF r.ok THEN [raised |-> FALSE, exc |-> NoExc, val |-> Num(r.v)]
                ELSE [raised |-> TRUE,
                      exc |-> Exc("ValueError", "could not convert string to float"),
                      val |-> None]
      [] OTHER -> [raised |-> TRUE,
                   exc |-> Exc("TypeError", "float() argument must be a string or a real number"),
                   val |-> None]

\* float(dados.get(f, 0)) if dados.get(f) else None
OddMember(obj, f) ==
    IF Truthy(DictGet(obj, f)) THEN PyFloat(DictGetDefault(obj, f, Num(0)))
    ELSE [raised |-> FALSE, exc |-> NoExc, val |-> None]

\* dados.get(f1) or dados.get(f2) or ...
AnyTruthy(obj, fs) == \E p \in 1..Len(fs) : Truthy(DictGet(obj, fs[p]))

\* The members of one odds group, converted left to right; the first
\* conversion that raises ends the evaluation.
GroupMembers(obj, fs) == [p \in 1..Len(fs) |-> OddMember(obj, fs[p])]

GroupRaised(obj, fs) ==
    AnyTruthy(obj, fs) /\ \E p \in 1..Len(fs) : GroupMembers(obj, fs)[p].raised

GroupExc(obj, fs) ==
    LET ms == GroupMembers(obj, fs)
        first == CHOOSE p \in 1..Len(fs) :
                    ms[p].raised /\ \A q \in 1..(p - 1) : ~ms[q].raised
    IN  ms[first].exc

Odds1x2(obj) ==
    IF AnyTruthy(obj, Fields1x2)
    THEN [casa |-> OddMember(obj, "odd_casa").val,
          empate |-> OddMember(obj, "odd_empate").val,
          fora |-> OddMember(obj, "odd_fora").val]
    ELSE None

OddsOverUnder(obj) ==
    IF AnyTruthy(obj, FieldsOverUnder)
    THEN [over |-> OddMember(obj, "odd_over").val,
          under |-> OddMember(obj, "odd_under").val]
    ELSE None

OddsBtts(obj) ==
    IF AnyTruthy(obj, FieldsBtts)
    THEN [sim |-> OddMember(obj, "odd_btts_sim").val,
          nao |-> OddMember(obj, "odd_btts_nao").val]
    ELSE None

\* ConsultaAposta(...): __post_init__ stamps the creation time.
ConsultaAposta(liga, time_casa, time_fora, odds_1x2, odds_over_under, odds_btts, contexto_adicional, t) ==
    [liga |-> liga, time_casa |-> time_casa, time_fora |-> time_fora,
     odds_1x2 |-> odds_1x2, odds_over_under |-> odds_over_under,
     odds_btts |-> odds_btts, contexto_adicional |-> contexto_adicional,
     timestamp |-> t]

NoConsulta == ConsultaAposta(None, None, None, None, None, None, None, 0)

Raise(e) == [raised |-> TRUE, exc |-> e, consulta |-> NoConsulta]

\* validar_contexto_consulta without the test of time_fora
validar_contexto_consulta_SemTimeFora(dados, t) ==
    IF dados.k # "dict"
    THEN Raise(Exc("AttributeError", "object has no attribute 'get'"))
    ELSE LET obj == dados.obj IN
    IF ~Truthy(DictGet(obj, "liga"))
    THEN Raise(Exc("ValueError", "Liga/Campeonato e obrigatorio"))
    ELSE IF ~Truthy(DictGet(obj, "time_casa"))
    THEN Raise(Exc("ValueError", "Time da casa e obrigatorio"))
    ELSE IF GroupRaised(obj, Fields1x2) THEN Raise(GroupExc(obj, Fields1x2))
    ELSE IF GroupRaised(obj, FieldsOverUnder)
    THEN Raise(GroupExc(obj, FieldsOverUnder))
    ELSE IF GroupRaised(obj, FieldsBtts) THEN Raise(GroupExc(obj, FieldsBtts))
    ELSE IF obj["time_fora"] = Absent THEN Raise(Exc("KeyError", "time_fora"))
    ELSE [raised |-> FALSE, exc |-> NoExc,
          consulta |-> ConsultaAposta(obj["liga"], obj["time_casa"],
                           obj["time_fora"], Odds1x2(obj), OddsOverUnder(obj),
                           OddsBtts(obj), DictGet(obj, "contexto_adicional"), t)]

\* validar_contexto_consulta building the odds groups before it tests the
\* required fields
validar_contexto_consulta_OddsPrimeiro(dados, t) ==
    IF dados.k # "dict"
    THEN Raise(Exc("AttributeError", "object has no attribute 'get'"))
    ELSE LET obj == dados.obj IN
    IF GroupRaised(obj, Fields1x2) THEN Raise(GroupExc(obj, Fields1x2))
    ELSE IF GroupRaised(obj, FieldsOverUnder)
    THEN Raise(GroupExc(obj, FieldsOverUnder))
    ELSE IF GroupRaised(obj, FieldsBtts) THEN Raise(GroupExc(obj, FieldsBtts))
    ELSE IF ~Truthy(DictGet(obj, "liga"))
    THEN Raise(Exc("ValueError", "Liga/Campeonato e obrigatorio"))
    ELSE IF ~Truthy(DictGet(obj, "time_casa"))
    THEN Raise(Exc("ValueError", "Time da casa e obrigatorio"))
    ELSE IF ~Truthy(DictGet(obj, "time_fora"))
    THEN Raise(Exc("ValueError", "Time visitante e obrigatorio"))
    ELSE [raised |-> FALSE, exc |-> NoExc,
          consulta |-> ConsultaAposta(obj["liga"], obj["time_casa"],
                           obj["time_fora"], Odds1x2(obj), OddsOverUnder(obj),
                           OddsBtts(obj), DictGet(obj, "contexto_adicional"), t)]

\* validar_contexto_consulta(dados) at time t.  dados is what get_json
\* returned: a dict, None or a list; .get on the last two is an
\* AttributeError.
validar_contexto_consulta(dados, t) ==
    IF dados.k # "dict"
    THEN Raise(Exc("AttributeError", "object has no attribute 'get'"))
    ELSE LET obj == dados.obj IN
    IF ~Truthy(DictGet(obj, "liga"))
    THEN Raise(Exc("ValueError", "Liga/Campeonato e obrigatorio"))
    ELSE IF ~Truthy(DictGet(obj, "time_casa"))
    THEN Raise(Exc("ValueError", "Time da casa e obrigatorio"))
    ELSE IF ~Truthy(DictGet(obj, "time_fora"))
    THEN Raise(Exc("ValueError", "Time visitante e obrigatorio"))
    ELSE IF GroupRaised(obj, Fields1x2) THEN Raise(GroupExc(obj, Fields1x2))
    ELSE IF GroupRaised(obj, FieldsOverUnder)
    THEN Raise(GroupExc(obj, FieldsOverUnder))
    ELSE IF GroupRaised(obj, FieldsBtts) THEN Raise(GroupExc(obj, FieldsBtts))
    ELSE [raised |-> FALSE, exc |-> NoExc,
          consulta |-> ConsultaAposta(obj["liga"], obj["time_casa"],
                           obj["time_fora"], Odds1x2(obj), OddsOverUnder(obj),
                           OddsBtts(obj), DictGet(obj, "contexto_adicional"), t)]

----------------------------------------------------------------------------
(* The gateway object, AnalistaQuantitativoXG *)

_carregar_base_conhecimento ==
    [P1_XG_Foundation |-> <<"UnderStat", "FBref", "XGScore">>,
     P2_Market_Value |-> <<"OddsAlerts", "@oddsnotifierbr">>,
     P3_Context_History |-> <<"FootyStats", "windrawwin", "Soccer Stats">>,
     P4_Live_Context |-> <<"FotMob", "SofascoreBR", "FlashscoreBR">>,
     thresholds_decisao |-> <<"ev_minimo: 0.02", "stake_maximo: 0.02",
                              "discrepancia_xg_maxima: 0.15", "kelly_fraction: 0.5">>]

\* AnalistaQuantitativoXG(api_key), once genai.configure has succeeded
AnalistaQuantitativoXG(api_key) ==
    [api_key |-> api_key,
     generation_config |-> <<"temperature: 0.1", "max_output_tokens: 2048">>,
     safety_settings |-> <<"HARM_CATEGORY_HARASSMENT: BLOCK_NONE",
                           "HARM_CATEGORY_HATE_SPEECH: BLOCK_NONE",
                           "HARM_CATEGORY_SEXUALLY_EXPLICIT: BLOCK_NONE",
                           "HARM_CATEGORY_DANGEROUS_CONTENT: BLOCK_NONE">>,
     model_name |-> "gemini-1.5-pro-latest",
     base_conhecimento |-> _carregar_base_conhecimento]

----------------------------------------------------------------------------
(* The prompt: a sequence of lines.  A line has a tag (its fixed text), the *)
(* fixed list it dumps (fixed) and the texts it interpolates (args).        *)

Line(tag, fixed, args) == [tag |-> tag, fixed |-> fixed, args |-> args]

Fixed(tag) == Line(tag, <<>>, <<>>)

\* odds.get(key, 'N/A'), rendered by the f-string: the groups built by the
\* validator hold every key, so a member that was not supplied is None.
MemberText(group, key) ==
    IF key \in DOMAIN group THEN PyStr(group[key]) ELSE <<"N", "/", "A">>

PlaceholderOdds == Fixed("  * Odds nao fornecidas")

Tag1x2 == "  * 1X2: Casa | Empate | Fora"

TagOverUnder == "  * Over/Under 2.5: Over | Under"

TagBtts == "  * BTTS: Sim | Nao"

TagContexto == "- Contexto Adicional:"

\* _formatar_odds(consulta): the lines that "\n".join puts together
_formatar_odds(consulta) ==
    LET l1 == IF consulta.odds_1x2 # None
              THEN <<Line(Tag1x2, <<>>,
                          <<MemberText(consulta.odds_1x2, "casa"),
                            MemberText(consulta.odds_1x2, "empate"),
                            MemberText(consulta.odds_1x2, "fora")>>)>>
              ELSE <<>>
        l2 == IF consulta.odds_over_under # None
              THEN <<Line(TagOverUnder, <<>>,
                          <<MemberText(consulta.odds_over_under, "over"),
                            MemberText(consulta.odds_over_under, "under")>>)>>
              ELSE <<>>
        l3 == IF consulta.odds_btts # None
              THEN <<Line(TagBtts, <<>>,
                          <<MemberText(consulta.odds_btts, "sim"),
                            MemberText(consulta.odds_btts, "nao")>>)>>
              ELSE <<>>
        odds_texto == l1 \o l2 \o l3
    IN  IF odds_texto # <<>> THEN odds_texto ELSE <<PlaceholderOdds>>

\* ContextLine without its condition
ContextLine_Sempre(consulta) ==
    Line(TagContexto, <<>>, <<PyStr(consulta.contexto_adicional)>>)

\* The line of the template that holds the context: empty without one
ContextLine(consulta) ==
    IF Truthy(consulta.contexto_adicional)
    THEN Line(TagContexto, <<>>, <<PyStr(consulta.contexto_adicional)>>)
    ELSE Fixed("")

AvisoDeRisco == Fixed("AVISO DE RISCO: A analise de IA nao garante lucro.")

\* The template down to the odds header
PromptHead(self, consulta) ==
    <<Fixed("#METHODOLOGY_CONSTRAINT"),
      Fixed("#KNOWLEDGE_BASE_RAG_INSTRUCTION"),
      Line("P1 (XG Foundation)", self.base_conhecimento.P1_XG_Foundation, <<>>),
      Line("P2 (Market Value & Movement)", self.base_conhecimento.P2_Market_Value, <<>>),
      Line("P3 (Context & History)", self.base_conhecimento.P3_Context_History, <<>>),
      Line("P4 (Live Context & Human Factor)", self.base_conhecimento.P4_Live_Context, <<>>),
      Fixed("#DATA_INPUT_TEMPLATE"),
      Line("- Liga/Campeonato:", <<>>, <<PyStr(consulta.liga)>>),
      Line("- Partida: vs", <<>>, <<PyStr(consulta.time_casa), PyStr(consulta.time_fora)>>),
      Fixed("- Odds de Mercado:")>>

\* The template after the context line
PromptTail(self, consulta) ==
    <<Fixed("#CHAIN_OF_THOUGHT_PROTOCOL"),
      Line("<COT_STEP_1: Coleta e Power Rating XG>", <<>>,
           <<PyStr(consulta.time_casa), PyStr(consulta.time_fora)>>),
      Fixed("<COT_STEP_2: Ajuste Contextual e Sharp Money>"),
      Fixed("<COT_STEP_3: Calculo da Probabilidade Real>"),
      Fixed("<COT_STEP_4: Deteccao de Valor Esperado (+EV) e Coerencia>"),
      Fixed("<COT_STEP_5: Decisao e Gerenciamento de Stake>"),
      Fixed("#ETHICAL_COMPLIANCE_MANDATORY"),
      AvisoDeRisco,
      Line("THRESHOLDS DE DECISAO:", self.base_conhecimento.thresholds_decisao, <<>>),
      Fixed("AGORA, INICIE A ANALISE SEGUINDO RIGOROSAMENTE OS 5 PASSOS CoT:")>>

\* _gerar_prompt_especializado that also writes the Query's creation time
_gerar_prompt_ComData(self, consulta) ==
    PromptHead(self, consulta) \o _formatar_odds(consulta)
    \o <<ContextLine(consulta)>> \o PromptTail(self, consulta)
    \o <<Line("- Data:", <<>>, <<NatToStr(consulta.timestamp)>>)>>

\* _gerar_prompt_especializado(self, consulta)
_gerar_prompt_especializado(self, consulta) ==
    PromptHead(self, consulta) \o _formatar_odds(consulta)
    \o <<ContextLine(consulta)>> \o PromptTail(self, consulta)

----------------------------------------------------------------------------
(* processar_consulta: what follows self.client.generate_content(prompt).  *)
(* An outcome of the external model says whether the call raised (call),   *)
(* whether reading response.text raised (text), and the text otherwise.    *)

Outcome(call, text) == [call |-> call, text |-> text]

GeminiOutcomes ==
    {Outcome(NoExc, NoExc),
     Outcome(NoExc, Exc("ValueError", "response.text: no valid Part (blocked)")),
     Outcome(NoExc, Exc("IndexError", "list index out of range")),
     Outcome(Exc("ServiceUnavailable", "503 failed to connect"), NoExc),
     Outcome(Exc("ValueError", "invalid argument"), NoExc)}

ErroResult(mensagem, detalhes) ==
    [erro |-> TRUE, mensagem |-> mensagem, detalhes |-> detalhes]

MsgBloqueada == "A resposta foi bloqueada pela politica de seguranca do Gemini."

MsgExtrair == "Erro ao extrair texto da resposta do Gemini."

MsgInterno == "Erro interno ao processar analise quantitativa"

OddsFornecidas(consulta) ==
    ("1x2" :> consulta.odds_1x2) @@ ("over_under" :> consulta.odds_over_under)
    @@ ("btts" :> consulta.odds_btts)

\* Resultado with an "erro" key, false, beside the success keys
Resultado_ComErro(self, consulta) ==
    [erro |-> FALSE,
     analise_completa |-> "response.text",
     partida |-> PyStr(consulta.time_casa) \o <<" ", "v", "s", " ">>
                 \o PyStr(consulta.time_fora),
     liga |-> consulta.liga,
     odds_fornecidas |-> OddsFornecidas(consulta),
     timestamp |-> consulta.timestamp,
     modelo_usado |-> <<self.model_name, " (Google AI)">>,
     metodologia |-> "Chain-of-Thought (5 passos) + Modelo Poisson + Kelly Criterion",
     disclaimer |-> "Analise de IA nao garante lucro. Apostas envolvem risco de perda financeira."]

\* Resultado with the two teams of "partida" in the other order
Resultado_Trocado(self, consulta) ==
    [analise_completa |-> "response.text",
     partida |-> PyStr(consulta.time_fora) \o <<" ", "v", "s", " ">>
                 \o PyStr(consulta.time_casa),
     liga |-> consulta.liga,
     odds_fornecidas |-> OddsFornecidas(consulta),
     timestamp |-> consulta.timestamp,
     modelo_usado |-> <<self.model_name, " (Google AI)">>,
     metodologia |-> "Chain-of-Thought (5 passos) + Modelo Poisson + Kelly Criterion",
     disclaimer |-> "Analise de IA nao garante lucro. Apostas envolvem risco de perda financeira."]

Resultado(self, consulta) ==
    [analise_completa |-> "response.text",
     partida |-> PyStr(consulta.time_casa) \o <<" ", "v", "s", " ">>
                 \o PyStr(consulta.time_fora),
     liga |-> consulta.liga,
     odds_fornecidas |-> OddsFornecidas(consulta),
     timestamp |-> consulta.timestamp,
     modelo_usado |-> <<self.model_name, " (Google AI)">>,
     metodologia |-> "Chain-of-Thought (5 passos) + Modelo Poisson + Kelly Criterion",
     disclaimer |-> "Analise de IA nao garante lucro. Apostas envolvem risco de perda financeira."]

Return(result) == [raised |-> FALSE, exc |-> NoExc, result |-> result]

\* processar_consulta without its outer "except Exception": what the call
\* raises reaches the route
processar_consulta_SemExcept(self, consulta, outcome) ==
    IF IsException(outcome.call)
    THEN [raised |-> TRUE, exc |-> outcome.call, result |-> ErroResult("", "")]
    ELSE IF IsValueError(outcome.text)
    THEN Return(ErroResult(MsgBloqueada, "Feedback do Prompt: response.prompt_feedback"))
    ELSE IF IsException(outcome.text)
    THEN Return(ErroResult(MsgExtrair, outcome.text.msg))
    ELSE Return(Resultado(self, consulta))

\* processar_consulta without the inner try around response.text: what the
\* read raises lands in the outer handler
processar_consulta_SemTryInterno(self, consulta, outcome) ==
    IF IsException(outcome.call)
    THEN Return(ErroResult(MsgInterno, outcome.call.msg))
    ELSE IF IsException(outcome.text)
    THEN Return(ErroResult(MsgInterno, outcome.text.msg))
    ELSE Return(Resultado(self, consulta))

\* processar_consulta whose inner generic handler re-raises and whose outer
\* handler is "except ValueError"
processar_consulta_SoValueError(self, consulta, outcome) ==
    IF IsValueError(outcome.call)
    THEN Return(ErroResult(MsgInterno, outcome.call.msg))
    ELSE IF IsException(outcome.call)
    THEN [raised |-> TRUE, exc |-> outcome.call, result |-> ErroResult("", "")]
    ELSE IF IsValueError(outcome.text)
    THEN Return(ErroResult(MsgBloqueada, "Feedback do Prompt: response.prompt_feedback"))
    ELSE IF IsException(outcome.text)
    THEN [raised |-> TRUE, exc |-> outcome.text, result |-> ErroResult("", "")]
    ELSE Return(Resultado(self, consulta))

\* processar_consulta whose inner try has the generic handler only
processar_consulta_SemValueError(self, consulta, outcome) ==
    IF IsException(outcome.call)
    THEN Return(ErroResult(MsgInterno, outcome.call.msg))
    ELSE IF IsException(outcome.text)
    THEN Return(ErroResult(MsgExtrair, outcome.text.msg))
    ELSE Return(Resultado(self, consulta))

\* processar_consulta(self, consulta), from the return of generate_content
\* on.  The inner try handles what reading response.text raises, the outer
\* "except Exception" everything else, so that nothing is raised to the
\* caller.
processar_consulta(self, consulta, outcome) ==
    IF IsException(outcome.call)
    THEN Return(ErroResult(MsgInterno, outcome.call.msg))
    ELSE IF IsValueError(outcome.text)
    THEN Return(ErroResult(MsgBloqueada, "Feedback do Prompt: response.prompt_feedback"))
    ELSE IF IsException(outcome.text)
    THEN Return(ErroResult(MsgExtrair, outcome.text.msg))
    ELSE Return(Resultado(self, consulta))

----------------------------------------------------------------------------
(* The route POST /analisar_aposta *)

Resp(status, json) == [status |-> status, json |-> json]

NoResp == Resp(0, [none |-> TRUE])

MsgNaoInicializado == "Analista nao inicializado"

MsgDadosInvalidos == "Dados de entrada invalidos"

MsgErroServidor == "Erro interno do servidor"

\* An HTTP request body as the route sees it: a JSON object (obj), JSON null,
\* a JSON list, bytes that are no JSON, or a body whose Content-Type is not
\* JSON.
Body(shape, obj) == [shape |-> shape, obj |-> obj]

Obj(given) == [f \in Fields |-> IF f \in DOMAIN given THEN given[f] ELSE Absent]

\* get_json as json.loads(request.data): bytes that are no JSON raise
\* JSONDecodeError, a ValueError, whatever the Content-Type
get_json_JsonLoads(body, legacy) ==
    CASE body.shape = "object" ->
            [raised |-> FALSE, exc |-> NoExc, dados |-> [k |-> "dict", obj |-> body.obj]]
      [] body.shape = "null" ->
            [raised |-> FALSE, exc |-> NoExc, dados |-> [k |-> "none", obj |-> body.obj]]
      [] body.shape = "list" ->
            [raised |-> FALSE, exc |-> NoExc, dados |-> [k |-> "list", obj |-> body.obj]]
      [] OTHER ->
            [raised |-> TRUE, exc |-> Exc("ValueError", "Expecting value"),
             dados |-> [k |-> "none", obj |-> body.obj]]

\* request.get_json().  Malformed JSON raises BadRequest; a Content-Type that
\* is not JSON raises UnsupportedMediaType, or gives None on a Flask older
\* than 2.1 (legacy).
get_json(body, legacy) ==
    CASE body.shape = "object" ->
            [raised |-> FALSE, exc |-> NoExc, dados |-> [k |-> "dict", obj |-> body.obj]]
      [] body.shape = "null" ->
            [raised |-> FALSE, exc |-> NoExc, dados |-> [k |-> "none", obj |-> body.obj]]
      [] body.shape = "list" ->
            [raised |-> FALSE, exc |-> NoExc, dados |-> [k |-> "list", obj |-> body.obj]]
      [] body.shape = "malformed" ->
            [raised |-> TRUE, exc |-> Exc("BadRequest", "400 Bad Request"),
             dados |-> [k |-> "none", obj |-> body.obj]]
      [] body.shape = "nojson" ->
            IF legacy
            THEN [raised |-> FALSE, exc |-> NoExc, dados |-> [k |-> "none", obj |-> body.obj]]
            ELSE [raised |-> TRUE,
                  exc |-> Exc("UnsupportedMediaType", "415 Unsupported Media Type"),
                  dados |-> [k |-> "none", obj |-> body.obj]]

\* RouteExcept with the ValueError handler left out
RouteExcept_SoException(e) == Resp(500, ErroResult(MsgErroServidor, e.msg))

\* The route's two handlers: except ValueError -> 400, except Exception -> 500
RouteExcept(e) ==
    IF IsValueError(e) THEN Resp(400, ErroResult(MsgDadosInvalidos, e.msg))
    ELSE Resp(500, ErroResult(MsgErroServidor, e.msg))

\* NaoInicializado answered as a validation error
NaoInicializado_Como400 ==
    Resp(400, ErroResult(MsgDadosInvalidos, "Analista nao inicializado"))

\* The answer of the route while analista_instance is None
NaoInicializado ==
    Resp(500, ErroResult(MsgNaoInicializado,
         "A chave da API pode estar faltando ou o Analista nao foi criado na inicializacao."))

\* What a worker holds of its request: the body received, the Query and the
\* prompt once validation passed, the number of generate_content calls made,
\* the outcome of the call, the exception the route caught, the response.
Idle == [st |-> "idle", body |-> Body("null", Obj(<<>>)), consulta |-> NoConsulta,
         prompt |-> <<>>, calls |-> 0, outcome |-> Outcome(NoExc, NoExc),
         exc |-> NoExc, resp |-> NoResp]

\* Rejected by a route that sends the raw body to the external model before
\* it looks at the gateway and validates
Rejected_ComChamada(body, exc, resp) ==
    [Idle EXCEPT !.st = "done", !.body = body, !.exc = exc, !.resp = resp,
                 !.prompt = <<Fixed("#DATA_INPUT_TEMPLATE")>>, !.calls = 1]

\* Answered before validation passed
Rejected(body, exc, resp) ==
    [Idle EXCEPT !.st = "done", !.body = body, !.exc = exc, !.resp = resp]

\* self.client.generate_content(prompt) is called and blocks
Calling(body, consulta, prompt) ==
    [Idle EXCEPT !.st = "calling", !.body = body, !.consulta = consulta,
                 !.prompt = prompt, !.calls = 1]

\* analisar_aposta() up to the point where generate_content blocks: the
\* request is answered at once (not initialised, get_json or validation
\* failed) or the prompt is rendered and sent.
RouteEntry(body, legacy) ==
    IF analista_instance = None THEN Rejected(body, NoExc, NaoInicializado)
    ELSE LET j == get_json(body, legacy) IN
    IF j.raised THEN Rejected(body, j.exc, RouteExcept(j.exc))
    ELSE LET v == validar_contexto_consulta(j.dados, now) IN
    IF v.raised THEN Rejected(body, v.exc, RouteExcept(v.exc))
    ELSE Calling(body, v.consulta,
                 _gerar_prompt_especializado(analista_instance, v.consulta))

\* RouteReturn with one more attempt after a call that raised
RouteReturn_Retry(r, outcome) ==
    IF IsException(outcome.call) /\ r.calls < 2
    THEN [r EXCEPT !.calls = r.calls + 1]
    ELSE LET p == processar_consulta(analista_instance, r.consulta, outcome)
         IN  [r EXCEPT !.st = "done", !.outcome = outcome, !.exc = p.exc,
                       !.resp = IF p.raised THEN RouteExcept(p.exc)
                                ELSE Resp(200, p.result)]

\* The rest of analisar_aposta(): processar_consulta maps the outcome of the
\* external call to a result and the route answers jsonify(result), 200;
\* what processar_consulta raised would go to the route's handlers.
RouteReturn(r, outcome) ==
    LET p == processar_consulta(analista_instance, r.consulta, outcome)
    IN  [r EXCEPT !.st = "done", !.outcome = outcome,
                  !.exc = p.exc,
                  !.resp = IF p.raised THEN RouteExcept(p.exc) ELSE Resp(200, p.result)]

\* analisar_aposta creating the gateway again on every request
analisar_aposta_Recria(w, bodies) ==
    /\ server = "serving"
    /\ req[w].st = "idle"
    /\ \E body \in bodies, legacy \in BOOLEAN :
          req' = [req EXCEPT ![w] = RouteEntry(body, legacy)]
    /\ analista_instance' = AnalistaQuantitativoXG(Str(<<"k", "2">>))
    /\ UNCHANGED <<launch, GOOGLE_API_KEY, server, now>>

\* A request arrives at worker w and runs up to the external call.
analisar_aposta(w, bodies) ==
    /\ server = "serving"
    /\ req[w].st = "idle"
    /\ \E body \in bodies, legacy \in BOOLEAN :
          req' = [req EXCEPT ![w] = RouteEntry(body, legacy)]
    /\ UNCHANGED <<launch, GOOGLE_API_KEY, server, analista_instance, now>>

\* The external call of worker w ends and the request is answered.
generate_content(w) ==
    /\ req[w].st = "calling"
    /\ \E outcome \in GeminiOutcomes :
          req' = [req EXCEPT ![w] = RouteReturn(req[w], outcome)]
    /\ UNCHANGED <<launch, GOOGLE_API_KEY, server, analista_instance, now>>

\* The client reads the response; the worker is free for the next request.
Deliver(w) ==
    /\ req[w].st = "done"
    /\ req' = [req EXCEPT ![w] = Idle]
    /\ UNCHANGED <<launch, GOOGLE_API_KEY, server, analista_instance, now>>

----------------------------------------------------------------------------
(* Start-up *)

Placeholder == Str(<<"SUA_CHAVE_API_DO_GEMINI_AQUI">>)

ValidKey == Str(<<"k">>)

\* criar_analista_instance(api_key): the constructor re-raises what
\* genai.configure raised, and the global is then left as it was.
criar_analista_instance(api_key, configure_ok) ==
    IF configure_ok THEN AnalistaQuantitativoXG(api_key) ELSE analista_instance

\* The __main__ block without the comparison with the placeholder
Main_SemPlaceholder(configure_ok) ==
    /\ launch = "script"
    /\ server = "boot"
    /\ IF ~Truthy(GOOGLE_API_KEY)
       THEN /\ server' = "exited"
            /\ UNCHANGED analista_instance
       ELSE /\ analista_instance' = criar_analista_instance(GOOGLE_API_KEY, configure_ok)
            /\ server' = IF configure_ok THEN "serving" ELSE "exited"
    /\ UNCHANGED <<launch, GOOGLE_API_KEY, now, req>>

\* python app.py: the __main__ block.  Without a usable key nothing is
\* created and app.run is not reached; so too when the constructor raises.
Main(configure_ok) ==
    /\ launch = "script"
    /\ server = "boot"
    /\ IF ~Truthy(GOOGLE_API_KEY) \/ GOOGLE_API_KEY = Placeholder
       THEN /\ server' = "exited"
            /\ UNCHANGED analista_instance
       ELSE /\ analista_instance' = criar_analista_instance(GOOGLE_API_KEY, configure_ok)
            /\ server' = IF configure_ok THEN "serving" ELSE "exited"
    /\ UNCHANGED <<launch, GOOGLE_API_KEY, now, req>>

\* The module imported by a WSGI server (flask run, gunicorn app:app): the
\* __main__ block does not run and the global keeps its initial None.
WsgiImport ==
    /\ launch = "wsgi"
    /\ server = "boot"
    /\ server' = "serving"
    /\ UNCHANGED <<launch, GOOGLE_API_KEY, analista_instance, now, req>>

\* Time passes.
Tick ==
    /\ now < MaxTime
    /\ now' = now + 1
    /\ UNCHANGED <<launch, GOOGLE_API_KEY, server, analista_instance, req>>

----------------------------------------------------------------------------
(* The requests of the model *)

Liga == Str(<<"L">>)

Casa == Str(<<"A">>)

Fora == Str(<<"B">>)

Odd25 == Str(<<"2", ".", "5">>)

\* Odds values beyond a plain "2.5": JSON null, "", text and numbers that are
\* zero, negative or below 1.0, a JSON number, text that is no number, a list.
ExoticOdds ==
    {None, Str(<<>>), Str(<<"0">>), Num(0), Str(<<"-", "1">>), Str(<<"0", ".", "5">>),
     Num(190), Str(<<"a", "b", "c">>), List}

NoOdds == [f \in Range(OddFields) |-> Absent]

\* Every subset of the odds fields supplied as "2.5"
PlainOdds == [Range(OddFields) -> {Absent, Odd25}]

\* One field with an exotic value, alone or beside every other field at "2.5"
OneExotic ==
    {[base EXCEPT ![f] = e] :
        base \in {NoOdds, [g \in Range(OddFields) |-> Odd25]},
        f \in Range(OddFields), e \in ExoticOdds}

\* Two fields that both fail to convert, one with a ValueError and one with a
\* TypeError
TwoBad ==
    {[NoOdds EXCEPT ![f] = Str(<<"a", "b", "c">>), ![g] = List] :
        f \in Range(OddFields), g \in Range(OddFields)} 

OddsChoices == PlainOdds \cup OneExotic \cup TwoBad

\* Each required field present, or missing in one way: no key, "", JSON null
RequiredChoices ==
    [liga : {Absent, Liga}, time_casa : {Str(<<>>), Casa}, time_fora : {None, Fora}]

ContextChoices == {Absent, Str(<<>>), Str(<<"c">>)}

MkObj(r, o, c) ==
    [f \in Fields |->
        IF f \in DOMAIN r THEN r[f]
        ELSE IF f \in DOMAIN o THEN o[f]
        ELSE c]

NotObjects == {Body(sh, Obj(<<>>)) : sh \in {"null", "list", "malformed", "nojson"}}

Bodies ==
    NotObjects \cup
    {Body("object", MkObj(r, o, c)) :
        r \in RequiredChoices, o \in OddsChoices, c \in ContextChoices}

Valid == [liga |-> Liga, time_casa |-> Casa, time_fora |-> Fora]

\* The few requests that two concurrent workers are fed
FewBodies ==
    {Body("null", Obj(<<>>)), Body("nojson", Obj(<<>>))} \cup
    {Body("object", MkObj(r, o, c)) :
        r \in {Valid, [Valid EXCEPT !.time_casa = Absent]},
        o \in {NoOdds, [NoOdds EXCEPT !["odd_over"] = Odd25],
               [NoOdds EXCEPT !["odd_casa"] = Num(0), !["odd_fora"] = Str(<<"a", "b", "c">>)]},
        c \in {Absent, Str(<<"c">>)}}

Workers == {"w1", "w2"}

Keys == {None, Str(<<>>), Placeholder, ValidKey}

Init ==
    /\ launch \in {"script", "wsgi"}
    /\ GOOGLE_API_KEY \in Keys
    /\ server = "boot"
    /\ analista_instance = None
    /\ now = 0
    /\ req = [w \in Workers |-> Idle]

\* One worker thread, every request of Bodies
Next ==
    \/ \E ok \in BOOLEAN : Main(ok)
    \/ WsgiImport
    \/ Tick
    \/ analisar_aposta("w1", Bodies)
    \/ generate_content("w1")
    \/ Deliver("w1")

Spec == Init /\ [][Next]_vars

\* Two worker threads, the requests of FewBodies
NextConc ==
    \/ \E ok \in BOOLEAN : Main(ok)
    \/ WsgiImport
    \/ Tick
    \/ \E w \in Workers : analisar_aposta(w, FewBodies)
    \/ \E w \in Workers : generate_content(w)
    \/ \E w \in Workers : Deliver(w)

SpecConc == Init /\ [][NextConc]_vars

\* SpecConc with the scheduling the program has: the interpreter runs the
\* __main__ block or the WSGI host finishes the import, clients keep sending
\* requests to a server that accepts them, generate_content returns or
\* raises, and a finished response is delivered.
SpecFair ==
    /\ SpecConc
    /\ WF_vars(\E ok \in BOOLEAN : Main(ok))
    /\ WF_vars(WsgiImport)
    /\ \A w \in Workers :
          /\ WF_vars(analisar_aposta(w, FewBodies))
          /\ WF_vars(generate_content(w))
          /\ WF_vars(Deliver(w))

----------------------------------------------------------------------------
(* Properties *)

\* The requests that have been answered
Answered == {w \in Workers : req[w].st = "done"}

\* The requests whose prompt has been sent to the external model
Sent == {w \in Workers : req[w].calls > 0}

IsErro(json) == "erro" \in DOMAIN json /\ json.erro = TRUE

IsSuccess(json) == "analise_completa" \in DOMAIN json

\* A required field that the request does not carry, or carries empty
MissingOrEmpty(body, f) ==
    body.shape # "object" \/ body.obj[f] \in {Absent, None, Str(<<>>)}

MissingRequired(body) ==
    \E p \in 1..Len(RequiredFields) : MissingOrEmpty(body, RequiredFields[p])

\* C1 as stated: every request that lacks liga, time_casa or time_fora is
\* answered with erro = true and HTTP 400, whatever the body shape and the
\* gateway state.
C1_Original ==
    \A w \in Answered :
        MissingRequired(req[w].body)
            => req[w].resp.status = 400 /\ IsErro(req[w].resp.json)

\* C1 amended: with the gateway initialised and a JSON object as body, a
\* request that lacks liga, time_casa or time_fora (missing, null or empty) is
\* answered with erro = true and HTTP 400, whatever its other fields; with
\* the gateway not initialised, or a body that is no JSON object, it is
\* answered with erro = true and HTTP 500.
C1_MissingRequiredIs400 ==
    \A w \in Answered :
        MissingRequired(req[w].body) =>
            /\ IsErro(req[w].resp.json)
            /\ req[w].calls = 0
            /\ IF analista_instance # None /\ req[w].body.shape = "object"
               THEN /\ req[w].resp.status = 400
                    /\ req[w].resp.json.mensagem = MsgDadosInvalidos
               ELSE req[w].resp.status = 500

\* A request with liga and time_casa, no time_fora and an odds value that is
\* no number, answered 400 by an initialised gateway
C1_Witness ==
    \E w \in Answered :
        /\ analista_instance # None
        /\ req[w].body.shape = "object"
        /\ req[w].body.obj["liga"] = Liga
        /\ req[w].body.obj["time_casa"] = Casa
        /\ req[w].body.obj["time_fora"] = None
        /\ req[w].body.obj["odd_casa"] = Str(<<"a", "b", "c">>)
        /\ req[w].resp.status = 400

\* C2: while analista_instance is None every request, whatever its body, is
\* answered with HTTP 500, erro = true and the mensagem "Analista nao
\* inicializado", and nothing of the request is looked at.
C2_NaoInicializadoIs500 ==
    analista_instance = None =>
        \A w \in Workers :
            /\ req[w].st # "calling"
            /\ req[w].st = "done" =>
                /\ req[w].resp.status = 500
                /\ IsErro(req[w].resp.json)
                /\ req[w].resp.json.mensagem = MsgNaoInicializado
                /\ req[w].calls = 0

\* A complete, valid request answered 500 because the gateway is None
C2_Witness ==
    \E w \in Answered :
        /\ analista_instance = None
        /\ ~MissingRequired(req[w].body)
        /\ req[w].body.obj["odd_over"] = Odd25
        /\ req[w].resp.status = 500
        /\ req[w].resp.json.mensagem = MsgNaoInicializado

\* C3 as stated: every response is the success shape with 200 or an error
\* shape with 400 or 500, a failure of the external call giving 500.
C3_Original ==
    \A w \in Answered :
        \/ IsSuccess(req[w].resp.json) /\ req[w].resp.status = 200
        \/ IsErro(req[w].resp.json) /\ req[w].resp.status \in {400, 500}

\* C3 amended: every response is the success shape with 200 or an error
\* shape with 200, 400 or 500.  A ValueError of get_json or of the validator
\* gives 400; an uninitialised gateway or any other exception before the
\* external call gives 500; a failure of the external call or of reading its
\* reply gives an error shape with 200, never 500; success is always 200.
C3_StatusOfEveryResponse ==
    \A w \in Answered :
        LET r == req[w] IN
        /\ IsSuccess(r.resp.json) # IsErro(r.resp.json)
        /\ r.resp.status \in {200, 400, 500}
        /\ IsSuccess(r.resp.json) => r.resp.status = 200
        /\ r.resp.status = 400 <=> r.calls = 0 /\ IsValueError(r.exc)
        /\ r.resp.status = 500 <=>
              r.calls = 0 /\ (analista_instance = None
                              \/ (IsException(r.exc) /\ ~IsValueError(r.exc)))
        /\ r.resp.status = 200 <=> r.calls = 1
        /\ r.calls = 1 =>
              (IsErro(r.resp.json) <=>
                  IsException(r.outcome.call) \/ IsException(r.outcome.text))

\* The external call failed in transport and the request was answered with
\* an error shape and HTTP 200
C3_Witness ==
    \E w \in Answered :
        /\ req[w].outcome.call.type = "ServiceUnavailable"
        /\ IsErro(req[w].resp.json)
        /\ req[w].resp.status = 200

\* The reply was withheld: reading response.text raised ValueError
SafetyBlocked(r) ==
    r.st = "done" /\ r.calls > 0 /\ ~IsException(r.outcome.call)
    /\ IsValueError(r.outcome.text)

\* generate_content itself raised
CallFailed(r) == r.st = "done" /\ r.calls > 0 /\ IsException(r.outcome.call)

\* Reading response.text raised something that is no ValueError
ReadFailed(r) ==
    r.st = "done" /\ r.calls > 0 /\ ~IsException(r.outcome.call)
    /\ IsException(r.outcome.text) /\ ~IsValueError(r.outcome.text)

\* C4: a request whose reply the external model withheld (response.text
\* raises ValueError) is answered with HTTP 200 and erro = true, and its
\* mensagem differs from the mensagem of every request whose external call
\* raised.
C4_SafetyBlockDistinctFromTransport ==
    \A w \in Workers :
        SafetyBlocked(req[w]) =>
            /\ req[w].resp.status = 200
            /\ IsErro(req[w].resp.json)
            /\ \A v \in Workers :
                  CallFailed(req[v]) =>
                      /\ IsErro(req[v].resp.json)
                      /\ req[v].resp.json.mensagem # req[w].resp.json.mensagem

\* One worker answered a safety block while the other answered a call that
\* raised
C4_Witness ==
    /\ SafetyBlocked(req["w1"])
    /\ CallFailed(req["w2"])
    /\ req["w2"].outcome.call.type = "ServiceUnavailable"

ErroKeys == {"erro", "mensagem", "detalhes"}

\* C5: whatever the external call does (reply, safety block, exception in
\* the call, exception while reading the reply), processar_consulta returns
\* a mapping and raises nothing to the route: the request is answered 200
\* with JSON that is the success result or a mapping of exactly erro = true,
\* mensagem and detalhes, both strings.
C5_ProcessarNeverRaises ==
    \A w \in Answered :
        req[w].calls > 0 =>
            LET r == req[w] IN
            /\ r.exc = NoExc
            /\ r.resp.status = 200
            /\ \/ /\ IsSuccess(r.resp.json)
                  /\ ~IsException(r.outcome.call) /\ ~IsException(r.outcome.text)
               \/ /\ DOMAIN r.resp.json = ErroKeys
                  /\ r.resp.json.erro = TRUE
                  /\ r.resp.json.mensagem \in {MsgBloqueada, MsgExtrair, MsgInterno}
                  /\ r.resp.json.detalhes \in STRING

\* Reading the reply raised an exception that is no ValueError, and the
\* request was answered with an error mapping
C5_Witness ==
    \E w \in Answered :
        /\ ReadFailed(req[w])
        /\ req[w].resp.status = 200
        /\ req[w].resp.json.mensagem = MsgExtrair

\* C6: a request that passes validation on an initialised gateway has
\* generate_content invoked exactly once: once while the call is in flight,
\* still once when the request is answered, whatever the outcome; a request
\* answered before validation passed has no call at all.
C6_ExactlyOneCall ==
    \A w \in Workers :
        LET r == req[w] IN
        /\ r.calls \in {0, 1}
        /\ r.st = "idle" => r.calls = 0
        /\ r.st = "calling" => r.calls = 1
        /\ r.st = "done" =>
              (r.calls = 1 <=> analista_instance # None /\ r.exc = NoExc)

\* A call that raised, answered without a second call
C6_Witness ==
    \E w \in Answered :
        /\ CallFailed(req[w])
        /\ req[w].calls = 1
        /\ IsErro(req[w].resp.json)

\* The odds groups: the key of the group in the Query, its key in
\* odds_fornecidas, its input fields and the member each field becomes
OddsGroups ==
    {[query |-> "odds_1x2", echo |-> "1x2", fields |-> Fields1x2,
      members |-> <<"casa", "empate", "fora">>],
     [query |-> "odds_over_under", echo |-> "over_under", fields |-> FieldsOverUnder,
      members |-> <<"over", "under">>],
     [query |-> "odds_btts", echo |-> "btts", fields |-> FieldsBtts,
      members |-> <<"sim", "nao">>]}

\* The request carries a value for the field: the key is there and its value
\* is neither null nor empty text
Supplied(v) == v \notin {Absent, None, Str(<<>>)}

GroupSupplied(obj, g) == \E p \in 1..Len(g.fields) : Supplied(obj[g.fields[p]])

\* The number a submitted odds value denotes
Denotes(v) == IF v.k = "num" THEN Num(v.n) ELSE Num(ParseFloat(v.s).v)

\* Group g of the Query (or of odds_fornecidas) holds, member by member, the
\* number of each supplied field and null for each field not supplied
MembersMatch(obj, g, group) ==
    \A p \in 1..Len(g.fields) :
        group[g.members[p]] =
            IF Supplied(obj[g.fields[p]]) THEN Denotes(obj[g.fields[p]]) ELSE None

\* C7 as stated: in every success response of a request that supplies some
\* odds groups and not others, odds_fornecidas has null for each group with no
\* field supplied, and for each supplied group its members are the numbers of
\* the submitted odds, unchanged.
C7_Original ==
    \A w \in Answered :
        LET r == req[w]
            obj == r.body.obj
        IN  /\ IsSuccess(r.resp.json)
            /\ \E g \in OddsGroups : GroupSupplied(obj, g)
            /\ \E g \in OddsGroups : ~GroupSupplied(obj, g)
            => \A g \in OddsGroups :
                  LET echoed == r.resp.json.odds_fornecidas[g.echo] IN
                  IF GroupSupplied(obj, g)
                  THEN echoed # None /\ MembersMatch(obj, g, echoed)
                  ELSE echoed = None

\* C8 as stated: for every Query the validator builds, an odds group is
\* non-null if and only if the request supplies at least one field of the
\* group, and in a non-null group every supplied field is its number (zero,
\* negative and below 1.0 included) and every other member is null.
C8_Original ==
    \A w \in Sent :
        LET obj == req[w].body.obj IN
        \A g \in OddsGroups :
            LET group == req[w].consulta[g.query] IN
            /\ group # None <=> GroupSupplied(obj, g)
            /\ group # None => MembersMatch(obj, g, group)

\* Two Queries that differ at most in their timestamp
SameButTimestamp(c, d) == [c EXCEPT !.timestamp = 0] = [d EXCEPT !.timestamp = 0]

\* C9: two requests whose Queries are equal in every field but the
\* timestamp, and so two requests with the same body, had the same prompt
\* sent to the external model, whenever they were made and whatever was
\* handled in between.
C9_PromptIsFunctionOfQuery ==
    \A w \in Sent, v \in Sent :
        /\ SameButTimestamp(req[w].consulta, req[v].consulta)
              => req[w].prompt = req[v].prompt
        /\ req[w].body = req[v].body
              => SameButTimestamp(req[w].consulta, req[v].consulta)

\* The same body with odds and context, answered for one worker and sent
\* again later by the other
C9_Witness ==
    /\ req["w1"].st = "done" /\ req["w1"].calls = 1
    /\ req["w2"].st = "calling"
    /\ req["w1"].body = req["w2"].body
    /\ req["w1"].body.obj["odd_over"] = Odd25
    /\ req["w1"].body.obj["contexto_adicional"] = Str(<<"c">>)
    /\ req["w1"].consulta.timestamp < req["w2"].consulta.timestamp

Tags(prompt) == {prompt[p].tag : p \in 1..Len(prompt)}

GroupTag(g) ==
    CASE g.query = "odds_1x2" -> Tag1x2
      [] g.query = "odds_over_under" -> TagOverUnder
      [] g.query = "odds_btts" -> TagBtts

\* The tags of the lines that are in every prompt
UnconditionalTags ==
    {"#METHODOLOGY_CONSTRAINT", "#KNOWLEDGE_BASE_RAG_INSTRUCTION",
     "P1 (XG Foundation)", "P2 (Market Value & Movement)",
     "P3 (Context & History)", "P4 (Live Context & Human Factor)",
     "#DATA_INPUT_TEMPLATE", "- Liga/Campeonato:", "- Partida: vs",
     "- Odds de Mercado:", "#CHAIN_OF_THOUGHT_PROTOCOL",
     "<COT_STEP_1: Coleta e Power Rating XG>",
     "<COT_STEP_2: Ajuste Contextual e Sharp Money>",
     "<COT_STEP_3: Calculo da Probabilidade Real>",
     "<COT_STEP_4: Deteccao de Valor Esperado (+EV) e Coerencia>",
     "<COT_STEP_5: Decisao e Gerenciamento de Stake>",
     "#ETHICAL_COMPLIANCE_MANDATORY", AvisoDeRisco.tag, "THRESHOLDS DE DECISAO:",
     "AGORA, INICIE A ANALISE SEGUINDO RIGOROSAMENTE OS 5 PASSOS CoT:"}

NoGroup(consulta) == \A g \in OddsGroups : consulta[g.query] = None

\* C10 as stated: the prompt has an odds line only if the Query has an odds
\* group and a context line only if it has a non-empty contexto_adicional;
\* without that data the line is not in the prompt, and every other line of
\* the prompt is there unconditionally (empty lines aside).
C10_Original ==
    \A w \in Sent :
        LET c == req[w].consulta
            tags == Tags(req[w].prompt) \ {""}
        IN  /\ \A g \in OddsGroups : GroupTag(g) \in tags => c[g.query] # None
            /\ TagContexto \in tags => Truthy(c.contexto_adicional)
            /\ tags \ ({GroupTag(g) : g \in OddsGroups} \cup {TagContexto})
                  = UnconditionalTags

\* C10 amended: under the header "- Odds de Mercado:", which is always there,
\* the prompt has one odds line for each odds group of the Query and, when
\* the Query has no odds group, the fixed line "Odds nao fornecidas" instead;
\* it has the context line if and only if contexto_adicional is non-empty (an
\* empty line stands in its place otherwise); every other line is in every
\* prompt.
C10_ConditionalLines ==
    \A w \in Sent :
        LET c == req[w].consulta
            prompt == req[w].prompt
            tags == Tags(prompt) \ {""}
            n == Cardinality({g \in OddsGroups : c[g.query] # None})
        IN  /\ \A g \in OddsGroups : GroupTag(g) \in tags <=> c[g.query] # None
            /\ PlaceholderOdds.tag \in tags <=> NoGroup(c)
            /\ TagContexto \in tags <=> Truthy(c.contexto_adicional)
            /\ "" \in Tags(prompt) <=> ~Truthy(c.contexto_adicional)
            /\ tags \ ({GroupTag(g) : g \in OddsGroups}
                       \cup {TagContexto, PlaceholderOdds.tag}) = UnconditionalTags
            /\ Len(prompt) = Cardinality(UnconditionalTags) + 1
                             + (IF n = 0 THEN 1 ELSE n)

\* A Query with no odds group and an empty contexto_adicional: the prompt
\* sent has the placeholder line and no context line
C10_Witness ==
    \E w \in Sent :
        /\ NoGroup(req[w].consulta)
        /\ req[w].consulta.contexto_adicional = Str(<<>>)
        /\ PlaceholderOdds.tag \in Tags(req[w].prompt)
        /\ TagContexto \notin Tags(req[w].prompt)

\* Whether the rendered prompt has the line
InPrompt(prompt, line) == \E i \in 1..Len(prompt) : prompt[i] = line

\* The text of a required field as the request carried it
Submitted(body, f) == body.obj[f].s

\* C11: the prompt of every request that reached the external model has the
\* league line with the submitted league, the fixture line with the submitted
\* home and away team and the fixed risk warning, whether or not odds and
\* context were given; every success response has the fixed "metodologia",
\* "partida" equal to "<home> vs <away>" and "liga" equal to the submitted
\* league.
C11_IdentifiersAndDisclaimer ==
    /\ \A w \in Sent :
          LET b == req[w].body IN
          /\ InPrompt(req[w].prompt,
                Line("- Liga/Campeonato:", <<>>, <<Submitted(b, "liga")>>))
          /\ InPrompt(req[w].prompt,
                Line("- Partida: vs", <<>>,
                     <<Submitted(b, "time_casa"), Submitted(b, "time_fora")>>))
          /\ InPrompt(req[w].prompt,
                Fixed("AVISO DE RISCO: A analise de IA nao garante lucro."))
    /\ \A w \in Answered :
          IsSuccess(req[w].resp.json) =>
            LET b == req[w].body  j == req[w].resp.json IN
            /\ j.metodologia =
                 "Chain-of-Thought (5 passos) + Modelo Poisson + Kelly Criterion"
            /\ j.partida = Submitted(b, "time_casa") \o <<" ", "v", "s", " ">>
                              \o Submitted(b, "time_fora")
            /\ j.liga = Str(Submitted(b, "liga"))

\* A request with the three identifiers only, no odds and no context, was
\* answered with a success payload
C11_Witness ==
    \E w \in Answered :
        /\ req[w].body = Body("object", MkObj(Valid, NoOdds, Absent))
        /\ IsSuccess(req[w].resp.json)
        /\ req[w].calls = 1

\* C12: the Query of every request that reached prompt rendering and the
\* external call has liga, time_casa and time_fora present and non-empty; each
\* of its odds groups is null or holds, for each member, null or a number.
C12_RequiredPresentOddsNullable ==
    \A w \in Sent :
        LET q == req[w].consulta IN
        /\ \A p \in 1..Len(RequiredFields) :
              q[RequiredFields[p]] \notin {Absent, None, Str(<<>>)}
        /\ \A g \in OddsGroups :
              \/ q[g.query] = None
              \/ \A m \in 1..Len(g.members) :
                    \/ q[g.query][g.members[m]] = None
                    \/ q[g.query][g.members[m]].k = "num"

\* A Query was sent whose first group is null while its second group is not,
\* one member of that group being null beside one that is a number
C12_Witness ==
    \E w \in Sent :
        LET q == req[w].consulta IN
        /\ q.odds_1x2 = None
        /\ q.odds_over_under # None
        /\ q.odds_over_under.over = None
        /\ q.odds_over_under.under.k = "num"
        /\ q.odds_btts = None
        /\ q.contexto_adicional \in {Absent, None}

\* C13: once the server is serving, no step of any request (arrival, return
\* of the external call, delivery, in any interleaving of the workers, or
\* the passing of time) changes analista_instance: it stays the same object
\* with the same model name, generation settings, safety settings and
\* knowledge base.
C13_GatewayStateFrozen ==
    [][server = "serving" => analista_instance' = analista_instance]_vars

\* With the gateway created, one worker is inside the external call while the
\* other has already answered a request that went through it
C13_Witness ==
    /\ server = "serving"
    /\ analista_instance = AnalistaQuantitativoXG(ValidKey)
    /\ req["w1"].st = "calling"
    /\ req["w2"].st = "done" /\ req["w2"].calls = 1

\* GOOGLE_API_KEY is absent, empty or still the placeholder
BadKey == ~Truthy(GOOGLE_API_KEY) \/ GOOGLE_API_KEY = Placeholder

C15_BlockedDistinctFromReadFailure ==
    \A w \in Workers, v \in Workers :
        SafetyBlocked(req[w]) /\ ReadFailed(req[v]) =>
            /\ IsErro(req[w].resp.json) /\ IsErro(req[v].resp.json)
            /\ req[w].resp.json.mensagem =
                 "A resposta foi bloqueada pela politica de seguranca do Gemini."
            /\ req[v].resp.json.mensagem =
                 "Erro ao extrair texto da resposta do Gemini."
            /\ req[w].resp.json.mensagem # req[v].resp.json.mensagem
            /\ req[v].resp.json.detalhes = req[v].outcome.text.msg

\* One worker answered a safety rejection while the other answered an
\* IndexError raised by the read of the reply text
C15_Witness ==
    /\ SafetyBlocked(req["w2"])
    /\ ReadFailed(req["w1"])
    /\ req["w1"].outcome.text.type = "IndexError"

\* C16: a request answered with HTTP 400, or with the "not initialized" 500,
\* had no prompt rendered and no generate_content call; and a request for
\* which a prompt was rendered or a call was made had the gateway in place
\* and a body that validar_contexto_consulta accepts.
C16_CallOnlyAfterValidation ==
    \A w \in Workers :
        LET r == req[w] IN
        /\ r.st = "done" /\ IsErro(r.resp.json)
            /\ (r.resp.status = 400 \/ r.resp.json.mensagem = "Analista nao inicializado")
            => r.calls = 0 /\ r.prompt = <<>>
        /\ r.calls > 0 \/ r.prompt # <<>>
            => /\ analista_instance # None
               /\ r.body.shape = "object"
               /\ ~validar_contexto_consulta(get_json(r.body, FALSE).dados,
                                             r.consulta.timestamp).raised

\* A request with a missing field and odds given was answered 400 without a
\* call
C16_Witness ==
    \E w \in Answered :
        /\ req[w].resp.status = 400
        /\ req[w].body.shape = "object"
        /\ req[w].body.obj["time_casa"] = Str(<<>>)
        /\ req[w].body.obj["odd_casa"] = Odd25
        /\ req[w].calls = 0

\* An odds field of the request holds text that float() does not parse
UnparseableOdds(body) ==
    \E p \in 1..Len(OddFields) :
        LET v == body.obj[OddFields[p]]
        IN  v.k = "str" /\ v.s # <<>> /\ ~ParseFloat(v.s).ok

\* C17: a request answered with HTTP 400 was rejected by
\* validar_contexto_consulta with a ValueError, for a missing required field
\* or for odds text that is no number, before any external call; a request
\* whose external call was made is never answered 400, whatever the call
\* did, a ValueError raised by the call or by the read of the reply included.
C17_Only400FromValidation ==
    \A w \in Answered :
        LET r == req[w] IN
        /\ r.resp.status = 400 =>
              /\ r.calls = 0
              /\ analista_instance # None
              /\ r.body.shape = "object"
              /\ IsValueError(r.exc)
              /\ validar_contexto_consulta(get_json(r.body, FALSE).dados, now).raised
              /\ MissingRequired(r.body) \/ UnparseableOdds(r.body)
        /\ r.calls > 0 => r.resp.status # 400 /\ ~IsException(r.exc)

\* generate_content itself raised a ValueError and the request was answered
\* with the internal-error payload, not with 400
C17_Witness ==
    \E w \in Answered :
        /\ req[w].calls = 1
        /\ IsValueError(req[w].outcome.call)
        /\ req[w].resp.status = 200
        /\ req[w].resp.json.mensagem = MsgInterno

\* The message of each required field, in the order of RequiredFields
RequiredMessages ==
    <<"Liga/Campeonato e obrigatorio", "Time da casa e obrigatorio",
      "Time visitante e obrigatorio">>

\* The first required field, in the order liga, time_casa, time_fora, that
\* the request lacks
FirstMissing(body) ==
    CHOOSE p \in 1..Len(RequiredFields) :
        /\ MissingOrEmpty(body, RequiredFields[p])
        /\ \A q \in 1..(p - 1) : ~MissingOrEmpty(body, RequiredFields[q])

\* C18: with the gateway initialised, a JSON object that lacks a required
\* field is answered 400 with detalhes naming the first missing field in the
\* order liga, time_casa, time_fora, whatever its odds fields hold: odds text
\* that is no number, or an odds value that is a list, is never what the
\* response reports.
C18_FirstMissingFieldReported ==
    \A w \in Answered :
        LET r == req[w] IN
        analista_instance # None /\ r.body.shape = "object" /\ MissingRequired(r.body)
            => /\ r.resp.status = 400
               /\ r.resp.json.mensagem = "Dados de entrada invalidos"
               /\ r.resp.json.detalhes = RequiredMessages[FirstMissing(r.body)]

\* A request without time_casa and time_fora, with odds text that is no
\* number, was answered with the message of time_casa
C18_Witness ==
    \E w \in Answered :
        /\ analista_instance # None
        /\ req[w].body.shape = "object"
        /\ req[w].body.obj["liga"] = Liga
        /\ req[w].body.obj["time_casa"] = Str(<<>>)
        /\ req[w].body.obj["time_fora"] = None
        /\ UnparseableOdds(req[w].body)
        /\ req[w].resp.json.detalhes = "Time da casa e obrigatorio"

\* C19: with the gateway initialised, a request whose body is JSON null, a
\* JSON list, bytes that are no JSON or a body without JSON content type is
\* answered with HTTP 500, erro = true and mensagem "Erro interno do
\* servidor", never with the 400 of validation, and with no external call
\* and no prompt.
C19_NonObjectBodyIs500 ==
    \A w \in Answered :
        LET r == req[w] IN
        analista_instance # None /\ r.body.shape # "object"
            => /\ r.resp.status = 500
               /\ IsErro(r.resp.json)
               /\ r.resp.json.mensagem = "Erro interno do servidor"
               /\ ~IsValueError(r.exc) /\ IsException(r.exc)
               /\ r.calls = 0 /\ r.prompt = <<>>

\* Bytes that are no JSON were answered 500 by an initialised gateway after
\* get_json raised BadRequest
C19_Witness ==
    \E w \in Answered :
        /\ analista_instance # None
        /\ req[w].body.shape = "malformed"
        /\ req[w].exc.type = "BadRequest"
        /\ req[w].resp.status = 500

SuccessKeys ==
    {"analise_completa", "partida", "liga", "odds_fornecidas", "timestamp",
     "modelo_usado", "metodologia", "disclaimer"}

\* C20: the JSON of every response has exactly the keys erro, mensagem and
\* detalhes with erro = true, or exactly the eight keys of the success
\* payload; no response has a key of both shapes.
C20_TwoShapes ==
    \A w \in Answered :
        LET j == req[w].resp.json IN
        /\ \/ DOMAIN j = {"erro", "mensagem", "detalhes"} /\ j.erro = TRUE
           \/ DOMAIN j = SuccessKeys
        /\ ~("erro" \in DOMAIN j /\ DOMAIN j \cap SuccessKeys # {})

\* A request with odds of every group was answered with a payload of the
\* eight success keys and no erro key
C20_Witness ==
    \E w \in Answered :
        /\ DOMAIN req[w].resp.json = SuccessKeys
        /\ "erro" \notin DOMAIN req[w].resp.json
        /\ \A p \in 1..Len(OddFields) : req[w].body.obj[OddFields[p]] = Odd25

TypeOK ==
    /\ server \in {"boot", "serving", "exited"}
    /\ now \in 0..MaxTime
    /\ \A w \in Workers : req[w].st \in {"idle", "calling", "done"}
====
